---- MODULE Spec2Model ----
(***************************************************************************)
(* Festerize: the command-line client that uploads CSV files to the Fester *)
(* IIIF manifest service (src/festerize.py).  One run of festerize() is    *)
(* modelled: the no-files check, the output directory, the availability    *)
(* probe, the upload loop over src and the handling of each response.      *)
(*                                                                         *)
(* The file system, the user's answer to the confirmation and the server   *)
(* are the environment: which paths exist and can be opened is drawn in    *)
(* Init, every answer of the server is drawn when the request is issued.   *)
(* Calls that raise and that nothing catches end the run in pc "crashed".  *)
(*                                                                         *)
(* The options --iiif-api-version, --server, --iiifhost, --metadata-update *)
(* and --loglevel shape the URL, the form fields and the level of the log  *)
(* (each of its three levels records logging.error); no branch of the run  *)
(* reads them and they are left out.                                       *)
(***************************************************************************)
EXTENDS Integers, Sequences, FiniteSets, TLC

\* Largest number of SRC arguments of a run.
MaxSrc == 2

\* FesterizeError, the exit codes used by the program.
NO_FILES_SPECIFIED == 1
NONEXISTENT_FILE_SPECIFIED == 2
NON_CSV_FILE_SPECIFIED == 3
FESTER_UNAVAILABLE == 4
FESTER_ERROR_RESPONSE == 5
FILE_IO_ERROR == 6
\* Exit status of a run that returns from festerize().
EXIT_OK == 0
\* Exit status of the interpreter after an uncaught exception, and of
\* click after click.Abort.
EXIT_UNCAUGHT == 1
\* HTTP status of a successful upload.
HTTP_CREATED == 201

----------------------------------------------------------------------------
\* The inputs of a run.

\* A path string, by its parts: directory, stem and suffix of the last part.
Paths ==
    { [dir |-> "in1", stem |-> "a", ext |-> ".csv"],
      [dir |-> "in2", stem |-> "a", ext |-> ".csv"],
      [dir |-> "in1", stem |-> "b", ext |-> ".csv"],
      [dir |-> "in1", stem |-> "a", ext |-> ".CSV"],
      [dir |-> "in1", stem |-> "a", ext |-> ".txt"] }

\* pathlib.Path(pathstring).name: the last part of the path, directory dropped.
csv_filename(pathstring) == <<pathstring.stem, pathstring.ext>>

\* pathlib.Path(pathstring).suffix
suffix(pathstring) == pathstring.ext

FileNames == { csv_filename(p) : p \in Paths }

\* Byte strings of response bodies and of files present before the run.
EmptyBody == <<>>
Bodies == { EmptyBody, <<65>>, <<66>> }
OldContent == <<79>>
\* An output directory without files.
NoFiles == [n \in {} |-> EmptyBody]

\* Texts, as sequences of words.
NotFoundText == <<"Collection", "not", "found">>
OutdatedText == <<"Festerize", "is", "outdated", "please", "upgrade">>
BadGatewayText == <<"502", "Bad", "Gateway">>

\* A parsed error page: the text of the element with id "error-message" and
\* the string of <title>, each a set holding the text when it is present.
NoPage == [error_message |-> {}, title |-> {}]
Pages ==
    { [error_message |-> {NotFoundText}, title |-> {}],
      [error_message |-> {OutdatedText}, title |-> {BadGatewayText}],
      [error_message |-> {}, title |-> {BadGatewayText}],
      NoPage }

\* Responses of POST <server>/collections.
ErrorStatuses == { 400, 502 }
Responses ==
    { [status |-> HTTP_CREATED, has_content_length |-> cl, content |-> b, html |-> NoPage] :
        cl \in BOOLEAN, b \in Bodies }
    \cup
    { [status |-> st, has_content_length |-> TRUE, content |-> EmptyBody, html |-> pg] :
        st \in ErrorStatuses, pg \in Pages }
NoResponse == [status |-> 0, has_content_length |-> FALSE, content |-> EmptyBody, html |-> NoPage]

\* Results of GET <server>/fester/status: a response with its status, or a
\* requests.exceptions.ConnectionError (no response).
ProbeStatuses == { 200, 304, 404, 503 }
ProbeResults ==
    { [connected |-> TRUE, status |-> st] : st \in ProbeStatuses }
    \cup { [connected |-> FALSE, status |-> 0] }

Range(s) == { s[i] : i \in DOMAIN s }
SeqsUpTo(S, n) == UNION { [1..k -> S] : k \in 0..n }

----------------------------------------------------------------------------
VARIABLES
    src,            \* the SRC arguments, in order
    strict_mode,    \* --strict-mode
    fs_exists,      \* the paths of src that exist
    fs_openable,    \* the paths of src that open(pathstring, "rb") can open
    out_exists,     \* the --out directory exists
    out_files,      \* the files of the --out directory: name -> bytes
    out_files0,     \* the files of the --out directory before the run
    pc,             \* "start", "probe", "loop", "done", "exited", "crashed"
    exit_code,      \* the exit status of the process: {} while it runs
    uncaught,       \* the exception that left festerize() uncaught, or "none"
    net,            \* the HTTP requests issued, in order
    probe,          \* the result of the availability probe: {} before it
    outcomes,       \* one record per path of src the loop has taken
    stderr,         \* click.echo(..., err=True) messages, in order
    log_errors,     \* logging.error records of the run's log file, in order
    log_done        \* the DONE line was logged

config == <<src, strict_mode, fs_exists, fs_openable, out_files0>>
vars == <<src, strict_mode, fs_exists, fs_openable, out_exists, out_files,
          out_files0, pc,
          exit_code, uncaught, net, probe, outcomes, stderr, log_errors, log_done>>

\* An error message: its kind, the file it names, and for a failed upload
\* the cause and the HTTP status.
Msg(kind, file, cause, status) ==
    [kind |-> kind, file |-> file, cause |-> cause, status |-> status]
NoName == <<"", "">>

\* What the loop did with one path: whether the path exists, whether the
\* POST was issued and answered, the response, whether the output file was
\* opened for writing (created or truncated), the bytes written, the error
\* messages echoed for the path, and the exception raised if any.
Outcome(exists, posted, responded, resp, wrote, msgs, raised) ==
    [exists |-> exists, posted |-> posted, responded |-> responded,
     resp |-> resp, wrote |-> wrote, msgs |-> msgs, raised |-> raised]

Init ==
    /\ src \in SeqsUpTo(Paths, MaxSrc)
    /\ strict_mode \in BOOLEAN
    /\ fs_exists \in SUBSET Range(src)
    /\ fs_openable \in SUBSET fs_exists
    /\ out_exists \in BOOLEAN
    /\ out_files \in IF out_exists
                     THEN { NoFiles, [n \in FileNames |-> OldContent] }
                     ELSE { NoFiles }
    /\ out_files0 = out_files
    /\ pc = "start"
    /\ exit_code = {}
    /\ uncaught = "none"
    /\ net = <<>>
    /\ probe = {}
    /\ outcomes = <<>>
    /\ stderr = <<>>
    /\ log_errors = <<>>
    /\ log_done = FALSE

----------------------------------------------------------------------------
\* The check with the wrong length: len(src) == 1.
no_files_one(s) == Len(s) = 1

\* len(src) == 0
no_files(s) == Len(s) = 0

\* if len(src) == 0: echo, sys.exit(NO_FILES_SPECIFIED)
NoFilesSpecified ==
    /\ pc = "start"
    /\ no_files(src)
    /\ stderr' = Append(stderr, Msg("no files", NoName, <<>>, 0))
    /\ pc' = "exited"
    /\ exit_code' = {NO_FILES_SPECIFIED}
    /\ UNCHANGED <<config, out_exists, out_files, uncaught, net, probe,
                   outcomes, log_errors, log_done>>

\* os.path.exists(out) is false: the directory is created.  The run's log
\* file is then opened in it: from here on logging.error reaches the log file.
CreateOutDir ==
    /\ pc = "start"
    /\ ~no_files(src)
    /\ ~out_exists
    /\ out_exists' = TRUE
    /\ pc' = "probe"
    /\ UNCHANGED <<config, out_files, exit_code, uncaught, net, probe,
                   outcomes, stderr, log_errors, log_done>>

\* os.path.exists(out) is true and the user confirms; the log file is opened.
ConfirmOutDir ==
    /\ pc = "start"
    /\ ~no_files(src)
    /\ out_exists
    /\ pc' = "probe"
    /\ UNCHANGED <<config, out_exists, out_files, exit_code, uncaught, net,
                   probe, outcomes, stderr, log_errors, log_done>>

\* os.path.exists(out) is true and the user declines: click.confirm(abort=True)
\* raises click.Abort, which click turns into exit status 1.
AbortOutDir ==
    /\ pc = "start"
    /\ ~no_files(src)
    /\ out_exists
    /\ pc' = "exited"
    /\ exit_code' = {EXIT_UNCAUGHT}
    /\ UNCHANGED <<config, out_exists, out_files, uncaught, net, probe,
                   outcomes, stderr, log_errors, log_done>>

\* requests.get raises (no response), or s.raise_for_status() raises:
\* raise_for_status raises HTTPError for the statuses 400..599 and for no other.
raise_for_status(status) == 400 <= status /\ status < 600
probe_raises(r) == ~r.connected \/ raise_for_status(r.status)

GetRequest == [method |-> "GET", url |-> "/fester/status", arg |-> 0]
PostRequest(i) == [method |-> "POST", url |-> "/collections", arg |-> i]

\* The probe raises a RequestException: echo, log, sys.exit(FESTER_UNAVAILABLE).
ProbeFails ==
    /\ pc = "probe"
    /\ \E r \in ProbeResults :
        /\ probe_raises(r)
        /\ probe' = {r}
    /\ net' = Append(net, GetRequest)
    /\ stderr' = Append(stderr, Msg("unavailable", NoName, <<>>, 0))
    /\ log_errors' = Append(log_errors, Msg("unavailable", NoName, <<>>, 0))
    /\ pc' = "exited"
    /\ exit_code' = {FESTER_UNAVAILABLE}
    /\ UNCHANGED <<config, out_exists, out_files, uncaught, outcomes, log_done>>

\* The probe raises nothing: the run goes on to the loop.
ProbeSucceeds ==
    /\ pc = "probe"
    /\ \E r \in ProbeResults :
        /\ ~probe_raises(r)
        /\ probe' = {r}
    /\ net' = Append(net, GetRequest)
    /\ pc' = "loop"
    /\ UNCHANGED <<config, out_exists, out_files, exit_code, uncaught,
                   outcomes, stderr, log_errors, log_done>>

----------------------------------------------------------------------------
\* The upload loop: for pathstring in src.

\* The position of the loop: the index in src of the path it takes next.
idx == Len(outcomes) + 1
InLoop == pc = "loop" /\ idx <= Len(src)

\* sys.exit(code) without the test of strict_mode.
always_exit(code) == pc' = "exited" /\ exit_code' = {code}

\* if strict_mode: sys.exit(code); otherwise the loop goes on.
strict_exit(code) ==
    IF strict_mode
    THEN pc' = "exited" /\ exit_code' = {code}
    ELSE UNCHANGED <<pc, exit_code>>

\* click.echo(error_msg, err=True) without logging.error(error_msg).
echo_only(msg) ==
    /\ stderr' = Append(stderr, msg)
    /\ UNCHANGED log_errors

\* click.echo(error_msg, err=True); logging.error(error_msg)
report_error(msg) ==
    /\ stderr' = Append(stderr, msg)
    /\ log_errors' = Append(log_errors, msg)

\* An exception leaves festerize(): traceback, exit status 1.
crash(exception) ==
    /\ pc' = "crashed"
    /\ exit_code' = {EXIT_UNCAUGHT}
    /\ uncaught' = exception

\* csv_filepath.suffix == ".csv"
is_csv(pathstring) == suffix(pathstring) = ".csv"

\* not csv_filepath.exists()
NonexistentFile ==
    /\ InLoop
    /\ src[idx] \notin fs_exists
    /\ LET msg == Msg("does not exist", csv_filename(src[idx]), <<>>, 0) IN
        /\ report_error(msg)
        /\ outcomes' = Append(outcomes,
                Outcome(FALSE, FALSE, FALSE, NoResponse, FALSE, <<msg>>, "none"))
    /\ strict_exit(NONEXISTENT_FILE_SPECIFIED)
    /\ UNCHANGED <<config, out_exists, out_files, uncaught, net, probe, log_done>>

\* The path exists and its suffix is not ".csv".
NonCsvFile ==
    /\ InLoop
    /\ src[idx] \in fs_exists
    /\ ~is_csv(src[idx])
    /\ LET msg == Msg("not a CSV", csv_filename(src[idx]), <<>>, 0) IN
        /\ report_error(msg)
        /\ outcomes' = Append(outcomes,
                Outcome(TRUE, FALSE, FALSE, NoResponse, FALSE, <<msg>>, "none"))
    /\ strict_exit(NON_CSV_FILE_SPECIFIED)
    /\ UNCHANGED <<config, out_exists, out_files, uncaught, net, probe, log_done>>

\* The path passes both checks.
Uploadable == InLoop /\ src[idx] \in fs_exists /\ is_csv(src[idx])

\* open(pathstring, "rb") raises OSError (a directory, no permission).
OpenFails ==
    /\ Uploadable
    /\ src[idx] \notin fs_openable
    /\ outcomes' = Append(outcomes,
            Outcome(TRUE, FALSE, FALSE, NoResponse, FALSE, <<>>, "OSError"))
    /\ crash("OSError")
    /\ UNCHANGED <<config, out_exists, out_files, net, probe, stderr,
                   log_errors, log_done>>

\* requests.post raises a RequestException: no response.
PostFails ==
    /\ Uploadable
    /\ src[idx] \in fs_openable
    /\ net' = Append(net, PostRequest(idx))
    /\ outcomes' = Append(outcomes,
            Outcome(TRUE, TRUE, FALSE, NoResponse, FALSE, <<>>, "ConnectionError"))
    /\ crash("ConnectionError")
    /\ UNCHANGED <<config, out_exists, out_files, probe, stderr, log_errors,
                   log_done>>

\* The POST is issued and answered with r.
Posted(r) ==
    /\ Uploadable
    /\ src[idx] \in fs_openable
    /\ r \in Responses
    /\ net' = Append(net, PostRequest(idx))

\* The file opened in append mode, "ab": the content follows what was there.
write_appended(files, name, content) ==
    [n \in DOMAIN files \cup {name} |->
        IF n = name
        THEN (IF name \in DOMAIN files THEN files[name] ELSE EmptyBody) \o content
        ELSE files[n]]

\* The file opened only when there is content to write.
write_unless_empty(files, name, content) ==
    IF content = EmptyBody
    THEN files
    ELSE [n \in DOMAIN files \cup {name} |-> IF n = name THEN content ELSE files[n]]

\* with open(os.path.join(out, csv_filename), "wb") as f: f.write(r.content)
\* The file of that name is created or truncated and holds the content.
write_result(files, name, content) ==
    [n \in DOMAIN files \cup {name} |-> IF n = name THEN content ELSE files[n]]

\* f.write returns the number of bytes written.  The test of the code,
\* "num_bytes_written is 0", holds exactly when the number is 0: the
\* interpreter keeps one object for the integer 0.
num_bytes_written(content) == Len(content)

\* Status 201 with a Content-Length header: the body is written to the output
\* directory; zero bytes written is reported, and ends a strict run.
UploadCreated ==
    \E r \in Responses :
        /\ Posted(r)
        /\ r.status = HTTP_CREATED
        /\ r.has_content_length
        /\ out_files' = write_result(out_files, csv_filename(src[idx]), r.content)
        /\ IF num_bytes_written(r.content) = 0
           THEN LET msg == Msg("failed to write", csv_filename(src[idx]), <<>>, 0) IN
                /\ report_error(msg)
                /\ outcomes' = Append(outcomes,
                        Outcome(TRUE, TRUE, TRUE, r, TRUE, <<msg>>, "none"))
                /\ strict_exit(FILE_IO_ERROR)
           ELSE /\ outcomes' = Append(outcomes,
                        Outcome(TRUE, TRUE, TRUE, r, TRUE, <<>>, "none"))
                /\ UNCHANGED <<pc, exit_code, stderr, log_errors>>
        /\ UNCHANGED <<config, out_exists, uncaught, probe, log_done>>

\* Status 201 with a Content-Length header, and open(..., "wb") raises OSError.
OutputOpenFails ==
    \E r \in Responses :
        /\ Posted(r)
        /\ r.status = HTTP_CREATED
        /\ r.has_content_length
        /\ outcomes' = Append(outcomes,
                Outcome(TRUE, TRUE, TRUE, r, FALSE, <<>>, "OSError"))
        /\ crash("OSError")
        /\ UNCHANGED <<config, out_exists, out_files, probe, stderr,
                       log_errors, log_done>>

\* Status 201 without a Content-Length header: r.headers["Content-Length"]
\* raises KeyError before anything is written.
MissingContentLength ==
    \E r \in Responses :
        /\ Posted(r)
        /\ r.status = HTTP_CREATED
        /\ ~r.has_content_length
        /\ outcomes' = Append(outcomes,
                Outcome(TRUE, TRUE, TRUE, r, FALSE, <<>>, "KeyError"))
        /\ crash("KeyError")
        /\ UNCHANGED <<config, out_exists, out_files, probe, stderr,
                       log_errors, log_done>>

\* error_page_soup.find(id="error-message") is None and error_page_soup.title
\* is None: the AttributeError of .get_text() is caught, the AttributeError of
\* .string is raised in the handler and nothing catches it.
classifier_raises(html) == html.error_message = {} /\ html.title = {}

\* The cause: the text of the error-message element, or else the title
\* followed by "- nginx".
error_cause(html) ==
    IF html.error_message # {}
    THEN CHOOSE t \in html.error_message : TRUE
    ELSE (CHOOSE t \in html.title : TRUE) \o <<"-", "nginx">>

\* "Failed to upload {}: {} (HTTP {})".format(csv_filename, error_cause, status)
failed_to_upload(name, r) == Msg("failed to upload", name, error_cause(r.html), r.status)

\* Any other status, with a page the classifier reads: the composed message
\* is reported, and ends a strict run.
UploadRejected ==
    \E r \in Responses :
        /\ Posted(r)
        /\ r.status # HTTP_CREATED
        /\ ~classifier_raises(r.html)
        /\ LET msg == failed_to_upload(csv_filename(src[idx]), r) IN
            /\ report_error(msg)
            /\ outcomes' = Append(outcomes,
                    Outcome(TRUE, TRUE, TRUE, r, FALSE, <<msg>>, "none"))
        /\ strict_exit(FESTER_ERROR_RESPONSE)
        /\ UNCHANGED <<config, out_exists, out_files, uncaught, probe, log_done>>

\* Any other status, with a page that has neither the element nor a title.
ClassifierCrashes ==
    \E r \in Responses :
        /\ Posted(r)
        /\ r.status # HTTP_CREATED
        /\ classifier_raises(r.html)
        /\ outcomes' = Append(outcomes,
                Outcome(TRUE, TRUE, TRUE, r, FALSE, <<>>, "AttributeError"))
        /\ crash("AttributeError")
        /\ UNCHANGED <<config, out_exists, out_files, probe, stderr,
                       log_errors, log_done>>

\* The loop is over: DONE is logged and festerize() returns.
Done ==
    /\ pc = "loop"
    /\ idx > Len(src)
    /\ log_done' = TRUE
    /\ pc' = "done"
    /\ exit_code' = {EXIT_OK}
    /\ UNCHANGED <<config, out_exists, out_files, uncaught, net, probe,
                   outcomes, stderr, log_errors>>

Next ==
    \/ NoFilesSpecified
    \/ CreateOutDir
    \/ ConfirmOutDir
    \/ AbortOutDir
    \/ ProbeFails
    \/ ProbeSucceeds
    \/ NonexistentFile
    \/ NonCsvFile
    \/ OpenFails
    \/ PostFails
    \/ UploadCreated
    \/ OutputOpenFails
    \/ MissingContentLength
    \/ UploadRejected
    \/ ClassifierCrashes
    \/ Done

Spec == Init /\ [][Next]_vars
----------------------------------------------------------------------------
\* Vocabulary of the properties.

Terminated == pc \in {"done", "exited", "crashed"}

\* The number of upload POSTs issued for the i-th path of src.
Posts(i) ==
    Cardinality({ k \in DOMAIN net : net[k].method = "POST" /\ net[k].arg = i })

NoUpload == \A k \in DOMAIN net : net[k].method # "POST"

\* The probe ended in a connection error or a status outside 200..299.
ProbeNot2xx(r) == ~r.connected \/ ~(200 <= r.status /\ r.status <= 299)

\* sub occurs in text as a run of consecutive words.
Contains(text, sub) ==
    \E i \in 1..(Len(text) - Len(sub) + 1) :
        SubSeq(text, i, i + Len(sub) - 1) = sub

\* The words that say the client is outdated and must upgrade.
OutdatedSignal == <<"outdated", "please", "upgrade">>

\* The k-th path got a response other than 201.
Rejected(k) == outcomes[k].responded /\ outcomes[k].resp.status # HTTP_CREATED

\* The k-th path got a 201 response and zero bytes were written for it.
ZeroWritten(k) ==
    /\ outcomes[k].wrote
    /\ outcomes[k].resp.content = EmptyBody

\* The exit status of the per-file error of the k-th path, {} when it has none.
PerFileErrorCode(k) ==
    IF ~outcomes[k].exists THEN {NONEXISTENT_FILE_SPECIFIED}
    ELSE IF ~is_csv(src[k]) THEN {NON_CSV_FILE_SPECIFIED}
    ELSE IF Rejected(k) THEN {FESTER_ERROR_RESPONSE}
    ELSE IF ZeroWritten(k) THEN {FILE_IO_ERROR}
    ELSE {}

\* The extracted cause of the k-th path's response carries the signal.
CarriesOutdatedSignal(k) ==
    /\ Rejected(k)
    /\ ~classifier_raises(outcomes[k].resp.html)
    /\ Contains(error_cause(outcomes[k].resp.html), OutdatedSignal)

\* The k-th path is the last one written under its file name.
LastWriteOfName(k) ==
    /\ outcomes[k].wrote
    /\ \A j \in DOMAIN outcomes :
        (j > k /\ csv_filename(src[j]) = csv_filename(src[k])) => ~outcomes[j].wrote

----------------------------------------------------------------------------
\* C8: if src is empty the run ends at once with exit status
\* NO_FILES_SPECIFIED and issues no HTTP request, neither the probe nor a
\* POST, whatever the other options are.
C8_NoFilesNoNetwork ==
    Len(src) = 0 =>
        /\ net = <<>>
        /\ pc \in {"start", "exited"}
        /\ pc = "exited" => exit_code = {NO_FILES_SPECIFIED}
        /\ outcomes = <<>>

\* C8 witness: a run with no SRC argument has exited.
C8_Witness == Len(src) = 0 /\ pc = "exited"

\* C1: if the availability probe ends in a connection error or in a status
\* that is not 2xx, the run ends with exit status FESTER_UNAVAILABLE and no
\* upload POST is issued for any path.
C1_ProbeNot2xxAborts ==
    \A r \in probe :
        ProbeNot2xx(r) =>
            /\ pc = "exited"
            /\ exit_code = {FESTER_UNAVAILABLE}
            /\ NoUpload

\* C2: in strict mode the first per-file error ends the run at once with the
\* exit status of its kind (2 missing, 3 not a CSV, 5 response other than
\* 201, 6 zero bytes written), and no later path is taken.
C2_StrictFirstErrorExits ==
    strict_mode =>
        \A k \in DOMAIN outcomes :
            PerFileErrorCode(k) # {} =>
                /\ pc = "exited"
                /\ exit_code = PerFileErrorCode(k)
                /\ Len(outcomes) = k
                /\ \A i \in DOMAIN src : i > k => Posts(i) = 0

\* C3: in non-strict mode, after a successful probe, a per-file error (one
\* without the outdated-client signal) never ends the run: a run that has
\* ended with such an error on its last path taken has returned normally, and
\* a run that has ended has issued exactly one POST for each path that exists
\* with suffix ".csv" and none for any other path.
C3_NonStrictErrorsNeverEndRun ==
    (~strict_mode /\ pc # "loop" /\ outcomes # <<>>) =>
        /\ \A k \in DOMAIN outcomes :
            (PerFileErrorCode(k) # {} /\ ~CarriesOutdatedSignal(k)) =>
                (k = Len(outcomes) => (pc = "done" /\ k = Len(src)))
        /\ (\A k \in DOMAIN outcomes :
                PerFileErrorCode(k) = {} \/ ~CarriesOutdatedSignal(k)) =>
            \A i \in DOMAIN src :
                Posts(i) = IF src[i] \in fs_exists /\ is_csv(src[i]) THEN 1 ELSE 0

C5_WrittenIffCreatedAndNonEmpty ==
    \A k \in DOMAIN outcomes :
        outcomes[k].raised = "none" =>
        (outcomes[k].wrote <=>
            /\ outcomes[k].responded
            /\ outcomes[k].resp.status = HTTP_CREATED
            /\ outcomes[k].resp.content # EmptyBody)

\* C5 as amended: the output file of a path's name is created or overwritten
\* if and only if its upload returned 201 with a Content-Length header and the
\* output file could be opened, whether or not the body is empty (an empty
\* body leaves an empty file); a file name no such path has is left as it
\* was before the run.
C5_WrittenIffCreated ==
    /\ \A k \in DOMAIN outcomes :
        /\ outcomes[k].wrote <=>
            /\ outcomes[k].responded
            /\ outcomes[k].resp.status = HTTP_CREATED
            /\ outcomes[k].resp.has_content_length
            /\ outcomes[k].raised # "OSError"
        /\ outcomes[k].wrote => csv_filename(src[k]) \in DOMAIN out_files
        /\ (outcomes[k].wrote /\ LastWriteOfName(k) /\ outcomes[k].resp.content = EmptyBody)
                => out_files[csv_filename(src[k])] = EmptyBody
    /\ \A n \in FileNames :
        (\A k \in DOMAIN outcomes : csv_filename(src[k]) = n => ~outcomes[k].wrote) =>
            /\ n \in DOMAIN out_files <=> n \in DOMAIN out_files0
            /\ n \in DOMAIN out_files => out_files[n] = out_files0[n]

\* C5 witness: a 201 response with an empty body has truncated a file that
\* was in the output directory before the run.
C5_Witness ==
    \E k \in DOMAIN outcomes :
        /\ ZeroWritten(k)
        /\ csv_filename(src[k]) \in DOMAIN out_files0
        /\ out_files0[csv_filename(src[k])] = OldContent
        /\ out_files[csv_filename(src[k])] = EmptyBody

\* C6: at the end of a run, for every successfully processed path, one whose
\* upload returned 201 with a body that is not empty and whose handling
\* raised no exception, the output file of that path's name holds exactly
\* the bytes of that path's own response body.
C6_OneOutputPerInput ==
    Terminated =>
        \A k \in DOMAIN outcomes :
            (/\ outcomes[k].raised = "none"
             /\ outcomes[k].responded
             /\ outcomes[k].resp.status = HTTP_CREATED
             /\ outcomes[k].resp.content # EmptyBody) =>
                /\ csv_filename(src[k]) \in DOMAIN out_files
                /\ out_files[csv_filename(src[k])] = outcomes[k].resp.content

\* C6 as amended: for every path whose response body was written, the output
\* file of its name holds exactly that body unless a later path with the
\* same file name was written too; the file then holds the later body.
C6_LastWriteOfNameWins ==
    \A k \in DOMAIN outcomes :
        LastWriteOfName(k) =>
            /\ csv_filename(src[k]) \in DOMAIN out_files
            /\ out_files[csv_filename(src[k])] = outcomes[k].resp.content

\* C6 witness: two paths in different directories with one file name were
\* both written, with different bodies, and the run has ended.
C6_Witness ==
    /\ Terminated
    /\ \E j, k \in DOMAIN outcomes :
        /\ j < k
        /\ src[j].dir # src[k].dir
        /\ csv_filename(src[j]) = csv_filename(src[k])
        /\ outcomes[j].wrote /\ outcomes[k].wrote
        /\ outcomes[j].resp.content # EmptyBody
        /\ outcomes[j].resp.content # outcomes[k].resp.content
        /\ out_files[csv_filename(src[k])] = outcomes[k].resp.content

\* The number of error outcomes of the run so far: no files given, service
\* unavailable, and the per-file errors.
ErrorOutcomes ==
    (IF Len(src) = 0 /\ pc # "start" THEN 1 ELSE 0)
    + Cardinality({ r \in probe : probe_raises(r) })
    + Cardinality({ k \in DOMAIN outcomes : PerFileErrorCode(k) # {} })

\* C7: every error outcome of a run produces one log record at error level
\* and one echoed error message.
C7_ErrorsLoggedAndEchoed ==
    /\ Len(log_errors) = ErrorOutcomes
    /\ Len(stderr) = ErrorOutcomes

\* The messages of the paths k..Len(outcomes), in order.
RECURSIVE MsgsFrom(_)
MsgsFrom(k) ==
    IF k > Len(outcomes) THEN <<>> ELSE outcomes[k].msgs \o MsgsFrom(k + 1)

\* The errors the run has met since its log file was opened, in order.
ErrorsSinceLogOpened ==
    (IF \E r \in probe : probe_raises(r)
     THEN <<Msg("unavailable", NoName, <<>>, 0)>> ELSE <<>>)
    \o MsgsFrom(1)

\* C7 as amended: every error met once the log file is open is both logged
\* at error level and echoed, one record and one message of the same text:
\* service unavailable, missing file, non-CSV file, zero-byte write, and the
\* composed message of a response other than 201 (none of either when the
\* classifier raises, C9).  The no-files error comes before the log file
\* exists and is echoed only.
C7_ErrorsLoggedAndEchoedOnceLogOpen ==
    /\ log_errors = ErrorsSinceLogOpened
    /\ stderr = (IF Len(src) = 0 /\ pc # "start"
                 THEN <<Msg("no files", NoName, <<>>, 0)>> ELSE <<>>) \o log_errors
    /\ \A k \in DOMAIN outcomes :
        PerFileErrorCode(k) # {} =>
            Len(outcomes[k].msgs) = IF outcomes[k].raised = "none" THEN 1 ELSE 0

\* C7 witness: two per-file errors of one run, a missing file and a refused
\* upload, are in the log and on the error output.
C7_Witness ==
    /\ Len(outcomes) = 2
    /\ ~outcomes[1].exists
    /\ Rejected(2)
    /\ Len(log_errors) = 2
    /\ stderr = log_errors

\* C9: for every response other than 201 the classifier returns a cause
\* without raising, the text of the error-message element or else the title
\* followed by the nginx marker, and the composed message is reported.
C9_ClassifierNeverRaises ==
    \A k \in DOMAIN outcomes :
        Rejected(k) =>
            LET html == outcomes[k].resp.html IN
            /\ outcomes[k].raised = "none"
            /\ Len(outcomes[k].msgs) = 1
            /\ outcomes[k].msgs[1].kind = "failed to upload"
            /\ outcomes[k].msgs[1].file = csv_filename(src[k])
            /\ outcomes[k].msgs[1].status = outcomes[k].resp.status
            /\ \A t \in html.error_message : outcomes[k].msgs[1].cause = t
            /\ html.error_message = {} =>
                \A t \in html.title :
                    outcomes[k].msgs[1].cause = t \o <<"-", "nginx">>
            /\ strict_mode => (pc = "exited" /\ exit_code = {FESTER_ERROR_RESPONSE})
            /\ (~strict_mode /\ Len(outcomes) = k) => pc \in {"loop", "done"}

\* C10: once the output directory is resolved no exception is left
\* uncaught: a run ends with exit status 0 after the DONE line or with one of
\* the exit statuses 1 to 6 of FesterizeError.
C10_NoUncaughtFaults ==
    /\ uncaught = "none"
    /\ pc # "crashed"
    /\ Terminated =>
        \/ pc = "done" /\ exit_code = {EXIT_OK} /\ log_done
        \/ pc = "exited" /\ \E c \in 1..6 : exit_code = {c}
====
